---------------------------- MODULE Spec2Model ----------------------------
(***************************************************************************)
(* live-f1, src/stream.c: the connection (open_stream), the stream reader  *)
(* (read_stream) and the frame assembler (parse_stream_block, next_packet).*)
(*                                                                         *)
(* Bytes are the integers 0..255.  The C buffer `packet' is a function on  *)
(* 0..Capacity-1, the input slice `buf' a sequence (buf_len is its Len).   *)
(***************************************************************************)
EXTENDS Integers, Sequences, FiniteSets, TLC

VARIABLES
    packet,      \* static unsigned char packet[129] of parse_stream_block
    packet_len,  \* static size_t packet_len of parse_stream_block
    buf,         \* the rest of the input slice of the running parse_stream_block
    pc,          \* "idle" between calls, "parse" inside the loop of parse_stream_block
    caller,      \* who called the running parse_stream_block: "direct" or "read_stream"
    emitted,     \* history: the completed packets, in the order the loop saw them
    emittedAt,   \* history: for each completed packet, the callStart of the call that completed it
    fed,         \* history: every byte handed to parse_stream_block so far
    fedConn,     \* history: for each byte fed, the value of conns when it was fed, that
                 \*   is the connection it was read from (0: a direct call)
    cuts,        \* history: the values of Len(fed) at which a parse_stream_block call began
    callStart,   \* history: Len(fed) when the running (or last) parse_stream_block call began
    budget,      \* number of bytes the environment may still supply
    np,          \* what the last next_packet call did (return value, bytes consumed, ...)
    timer,       \* static int timer of read_stream
    sock,        \* the data stream socket: "none", "open" or "closed"
    conns,       \* number of open_stream calls made
    rs,          \* what the last read_stream call did (return value, system calls, ...)
    run,         \* consecutive timed-out polls since timer was last 0 (-1: no such run)
    written,     \* history: the bytes written to the socket
    os,          \* what the last open_stream call did (candidates, system calls, return)
    hdr,         \* a two-byte packet header under classification
    hdrLen       \* the expected length computed for hdr (-1: not computed yet)

vars == <<packet, packet_len, buf, pc, caller, emitted, emittedAt, fed, fedConn, cuts, callStart,
          budget, np, timer, sock, conns, rs, run, written, os, hdr, hdrLen>>

asmVars    == <<packet, packet_len, buf, pc, caller, emitted, emittedAt, fed, fedConn, cuts,
               callStart, budget, np>>
streamVars == <<timer, sock, conns, rs, run, written>>
hdrVars    == <<hdr, hdrLen>>

---------------------------------------------------------------------------
(* Bounds of the model *)

\* Total number of bytes the environment hands to the assembler in one behaviour.
MaxFed == 4
\* Largest slice handed to one parse_stream_block call by a direct caller.
MaxChunk == 3
\* Largest number of bytes one read() of read_stream returns.
MaxRead == 2
\* Total number of bytes the server sends in one behaviour of the whole program.
MaxWire == 2
\* Number of open_stream calls in one behaviour.
MaxConns == 2
\* Number of candidate addresses getaddrinfo returns.
MaxCand == 4
\* Number of keepalive bytes written in one behaviour.
MaxPings == 2

(* Program constants *)

\* unsigned char packet[129]
Capacity == 129
\* if (timer++ < 10)
PingAfter == 10
\* buf[0] = 0x10
PingByte == 16

Byte == 0..255

\* The bytes direct callers feed: as header bytes they select the special, short
\* and long length classes, as payload they are data.
\*   0x05 0x20 0xE3 0x10
FeedBytes == {5, 32, 227, 16}
\* The bytes the server sends in the model of the whole program: headers of the
\* short class, with and without the null marker.
\*   0x20 0xF0
WireBytes == {32, 240}

---------------------------------------------------------------------------
(* Bit arithmetic on unsigned values *)

RECURSIVE BitAnd(_, _)
BitAnd(a, b) ==
    IF a = 0 \/ b = 0 THEN 0
    ELSE (IF a % 2 = 1 /\ b % 2 = 1 THEN 1 ELSE 0) + 2 * BitAnd(a \div 2, b \div 2)

RECURSIVE BitOr(_, _)
BitOr(a, b) ==
    IF a = 0 THEN b
    ELSE IF b = 0 THEN a
    ELSE (IF a % 2 = 1 \/ b % 2 = 1 THEN 1 ELSE 0) + 2 * BitOr(a \div 2, b \div 2)

ShiftR(a, n) == a \div (2 ^ n)
ShiftL(a, n) == a * (2 ^ n)

MIN(a, b) == IF a < b THEN a ELSE b

---------------------------------------------------------------------------
(* The header macros, p a buffer holding at least bytes 0 and 1 *)

PACKET_CAR(p) == BitAnd(p[0], 31)

\* A bug: the type bit of byte 1 is shifted one place too far.
PACKET_TYPE_WrongShift(p) == BitOr(ShiftR(p[0], 5), ShiftL(BitAnd(p[1], 1), 4))

PACKET_TYPE(p) == BitOr(ShiftR(p[0], 5), ShiftL(BitAnd(p[1], 1), 3))

SPECIAL_PACKET_DATA(p) == ShiftR(p[1], 1)

LONG_PACKET_LEN(p) == SPECIAL_PACKET_DATA(p) + 2

\* A bug: the marker is compared with the nibble value, not with the masked bits.
SHORT_PACKET_NUL_Nibble(p) == BitAnd(p[1], 240) = 15

SHORT_PACKET_NUL(p) == BitAnd(p[1], 240) = 240

SHORT_PACKET_LEN(p) == (IF SHORT_PACKET_NUL(p) THEN 0 ELSE ShiftR(p[1], 4)) + 2

SPECIAL_PACKET_LEN(p) == 2

\* enum CarPacketType
CAR_POSITION_UPDATE == 0
CAR_POSITION_HISTORY == 15

\* enum SystemPacketType
SYS_EVENT_ID == 1
SYS_KEY_FRAME == 2
SYS_UNKNOWN_SPECIAL_A == 3
SYS_UNKNOWN_LONG_A == 4
SYS_UNKNOWN_SPECIAL_B == 5
SYS_UNKNOWN_LONG_B == 6
SYS_STRANGE_A == 7
SYS_UNKNOWN_SPECIAL_C == 8
SYS_UNKNOWN_SHORT_A == 9
SYS_UNKNOWN_LONG_C == 10
SYS_UNKNOWN_SHORT_B == 11
SYS_COPYRIGHT == 12

\* The two switch statements of next_packet: the value given to `expected'.
Expected(p) ==
    IF PACKET_CAR(p) # 0
    THEN CASE PACKET_TYPE(p) = CAR_POSITION_UPDATE  -> SPECIAL_PACKET_LEN(p)
           [] PACKET_TYPE(p) = CAR_POSITION_HISTORY -> LONG_PACKET_LEN(p)
           [] OTHER                                 -> SHORT_PACKET_LEN(p)
    ELSE CASE PACKET_TYPE(p) \in {SYS_UNKNOWN_SPECIAL_A, SYS_UNKNOWN_SPECIAL_B,
                                  SYS_UNKNOWN_SPECIAL_C} -> SPECIAL_PACKET_LEN(p)
           [] PACKET_TYPE(p) \in {SYS_EVENT_ID, SYS_KEY_FRAME, SYS_UNKNOWN_SHORT_A,
                                  SYS_UNKNOWN_SHORT_B}   -> SHORT_PACKET_LEN(p)
           [] PACKET_TYPE(p) = SYS_STRANGE_A             -> 4
           [] OTHER                                      -> LONG_PACKET_LEN(p)

---------------------------------------------------------------------------
(* next_packet *)

\* A bug: the copy goes to the start of the buffer, not to packet + *packet_len.
Memcpy_AtStart(p, at, src, n) ==
    [i \in DOMAIN p |-> IF i < n THEN src[i + 1] ELSE p[i]]

\* memcpy (packet + at, src, n): the bytes of the buffer after the copy.  A copy that
\* runs past the end of the buffer leaves the buffer's own bytes as written up to the
\* end; CopyTop records how far it reached.
Memcpy(p, at, src, n) ==
    [i \in DOMAIN p |-> IF i >= at /\ i < at + n THEN src[i - at + 1] ELSE p[i]]

\* One past the highest index a copy of n bytes to packet + at writes (0: none).
CopyTop(at, n) == IF n > 0 THEN at + n ELSE 0

\* A bug: the input pointer and length are not advanced past the bytes copied.
Rest_NoAdvance(b, n) == b

Rest(b, n) == SubSeq(b, n + 1, Len(b))

\* A bug: the header bytes already buffered are not counted.
HeaderNeeded_Restart(len, b) == MIN(Len(b), 2)

\* needed = MIN (*buf_len, 2 - *packet_len), taken when *packet_len < 2
HeaderNeeded(len, b) == MIN(Len(b), 2 - len)

\* A bug: the bytes already buffered are not subtracted from the expected length.
BodyNeeded_WholeLength(len, b, expected) == MIN(Len(b), expected)

\* A bug: one byte fewer than the packet still lacks is asked for.
BodyNeeded_OneShort(len, b, expected) ==
    IF expected > len THEN MIN(Len(b), expected - len - 1) ELSE 0

\* needed = MIN (*buf_len, expected - *packet_len) in size_t arithmetic: when
\* expected < *packet_len the difference wraps to a value above every buf_len,
\* so MIN yields buf_len.
BodyNeeded(len, b, expected) ==
    IF expected >= len THEN MIN(Len(b), expected - len) ELSE Len(b)

\* The first block of next_packet: copy up to the two header bytes.
CopyHeader(p, len, b) ==
    IF len < 2
    THEN LET needed == HeaderNeeded(len, b)
         IN  [packet |-> Memcpy(p, len, b, needed), packet_len |-> len + needed,
              buf |-> Rest(b, needed), top |-> CopyTop(len, needed)]
    ELSE [packet |-> p, packet_len |-> len, buf |-> b, top |-> 0]

\* A bug: the length is compared with `expected' before the bytes copied are added
\* to it.
CopyBody_StaleCompare(h, expected, needed, n) ==
    [packet |-> Memcpy(h.packet, h.packet_len, h.buf, needed),
     packet_len |-> h.packet_len + needed,
     buf |-> Rest(h.buf, needed),
     ret |-> IF h.packet_len = expected THEN 1 ELSE 0,
     expected |-> expected,
     top |-> IF CopyTop(h.packet_len, needed) > h.top
             THEN CopyTop(h.packet_len, needed) ELSE h.top,
     wrapped |-> expected < h.packet_len,
     consumed |-> n - (Len(h.buf) - needed)]

\* The rest of next_packet, from "We have enough of the packet to know how long it
\* is"; h is the buffer, length and input after the header block, n the size of
\* the slice the call was entered with.
CopyBody(h, expected, needed, n) ==
    [packet |-> Memcpy(h.packet, h.packet_len, h.buf, needed),
     packet_len |-> h.packet_len + needed,
     buf |-> Rest(h.buf, needed),
     ret |-> IF h.packet_len + needed = expected THEN 1 ELSE 0,
     expected |-> expected,
     top |-> IF CopyTop(h.packet_len, needed) > h.top
             THEN CopyTop(h.packet_len, needed) ELSE h.top,
     wrapped |-> expected < h.packet_len,
     consumed |-> n - (Len(h.buf) - needed)]

\* A bug: the length is worked out with one header byte buffered (< 1 for < 2),
\* so that packet[1] is read as an earlier packet left it.
AfterHeader_EarlyClassify(h, n) ==
    IF h.packet_len < 1
    THEN [packet |-> h.packet, packet_len |-> h.packet_len, buf |-> h.buf,
          ret |-> 0, expected |-> -1, top |-> h.top, wrapped |-> FALSE,
          consumed |-> n - Len(h.buf)]
    ELSE CHOOSE r \in {CopyBody(h, expected, BodyNeeded(h.packet_len, h.buf, expected), n) :
                           expected \in {Expected(h.packet)}} : TRUE

AfterHeader(h, n) ==
    IF h.packet_len < 2
    THEN [packet |-> h.packet, packet_len |-> h.packet_len, buf |-> h.buf,
          ret |-> 0, expected |-> -1, top |-> h.top, wrapped |-> FALSE,
          consumed |-> n - Len(h.buf)]
    ELSE CHOOSE r \in {CopyBody(h, expected, BodyNeeded(h.packet_len, h.buf, expected), n) :
                           expected \in {Expected(h.packet)}} : TRUE

\* next_packet (packet, &packet_len, &buf, &buf_len): the new buffer, length and
\* input, the return value, and a record of what the call did.  The header block
\* runs once and the rest works on its result h (as `expected' is worked out once
\* in AfterHeader): the one element of a set names a value computed once.
next_packet(p, len, b) ==
    CHOOSE r \in {AfterHeader(h, Len(b)) : h \in {CopyHeader(p, len, b)}} : TRUE

---------------------------------------------------------------------------
(* parse_stream_block *)

\* The bytes packet[0] .. packet[n-1] as a sequence.
Range(p, n) == [i \in 1..n |-> p[i - 1]]

NoPacketCall ==
    [ret |-> 0, expected |-> -1, top |-> 0, wrapped |-> FALSE, consumed |-> 0,
     lenAfter |-> 0, iter |-> 0, left |-> 0]

NoReadCall ==
    [ret |-> 1, ops |-> <<>>, poll |-> "none", revents |-> {}, nread |-> 0,
     wrote |-> 0, fwd |-> <<>>, returned |-> TRUE, timerBefore |-> 0, runAt |-> 0]

NoOpenCall ==
    [called |-> FALSE, resolved |-> FALSE, cands |-> <<>>, ops |-> <<>>, ret |-> -1,
     err |-> "none"]

Slices(S, n) == UNION {[1..k -> S] : k \in 0..n}

\* A caller enters parse_stream_block (http_sess, buf, buf_len) with the slice b.
EnterParse(b, who) ==
    /\ buf' = b
    /\ pc' = "parse"
    /\ caller' = who
    /\ Len(b) <= budget
    /\ budget' = budget - Len(b)
    /\ fed' = fed \o b
    /\ fedConn' = fedConn \o [i \in 1..Len(b) |-> conns]
    /\ cuts' = cuts \cup {Len(fed)}
    /\ callStart' = Len(fed)
    /\ np' = NoPacketCall
    /\ UNCHANGED <<packet, packet_len, emitted, emittedAt>>

\* A bug: the idle counter is not reset after data was read.
ReadStreamReturn_NoReset ==
    /\ timer' = timer
    /\ run' = run
    /\ rs' = [rs EXCEPT !.ret = rs.nread, !.returned = TRUE]
    /\ UNCHANGED <<sock, conns, written>>

\* What read_stream does after parse_stream_block returns: timer = 0; return ret;
ReadStreamReturn ==
    /\ timer' = 0
    /\ run' = 0
    /\ rs' = [rs EXCEPT !.ret = rs.nread, !.returned = TRUE]
    /\ UNCHANGED <<sock, conns, written>>

\* One evaluation of the loop condition of parse_stream_block, with the loop body
\* (packet_len = 0) when next_packet returned 1 and the return when it returned 0.
NextPacket ==
    /\ pc = "parse"
    /\ \E r \in {next_packet(packet, packet_len, buf)} :
           /\ packet' = r.packet
           /\ buf' = r.buf
           /\ np' = [ret |-> r.ret, expected |-> r.expected, top |-> r.top,
                     wrapped |-> r.wrapped, consumed |-> r.consumed,
                     lenAfter |-> r.packet_len, iter |-> np.iter + 1,
                     left |-> Len(r.buf)]
           /\ IF r.ret # 0
              THEN /\ emitted' = Append(emitted, Range(r.packet, r.packet_len))
                   /\ emittedAt' = Append(emittedAt, callStart)
                   /\ packet_len' = 0
                   /\ pc' = "parse"
                   /\ UNCHANGED <<caller, streamVars>>
              ELSE /\ packet_len' = r.packet_len
                   /\ pc' = "idle"
                   /\ caller' = "none"
                   /\ UNCHANGED <<emitted, emittedAt>>
                   /\ IF caller = "read_stream"
                      THEN ReadStreamReturn
                      ELSE UNCHANGED streamVars
    /\ UNCHANGED <<fed, fedConn, cuts, callStart, budget, os, hdrVars>>

\* A direct call of parse_stream_block (the data of a key frame, or a test driver).
ParseStreamBlock(b) ==
    /\ pc = "idle"
    /\ EnterParse(b, "direct")
    /\ UNCHANGED <<streamVars, os, hdrVars>>

---------------------------------------------------------------------------
(* open_stream *)

\* What can happen to one candidate address: socket() fails, socket() succeeds and
\* connect() fails, or both succeed.
Outcomes == {"socket_fails", "connect_fails", "connects"}

\* The lists of candidates getaddrinfo can return on success: at least one address.
CandLists(n) == UNION {[1..k -> Outcomes] : k \in 1..n}

Op(name, i) == [op |-> name, cand |-> i]

\* A bug: a failed socket() ends the loop (break for continue).
RECURSIVE TryCandidates_GiveUp(_, _, _)
TryCandidates_GiveUp(cands, i, ops) ==
    IF i > Len(cands)
    THEN [sock |-> -1, ops |-> ops]
    ELSE CASE cands[i] = "socket_fails" ->
                [sock |-> -1, ops |-> Append(ops, Op("socket_failed", i))]
           [] cands[i] = "connect_fails" ->
                TryCandidates_GiveUp(cands, i + 1,
                    ops \o <<Op("socket", i), Op("connect_failed", i), Op("close", i)>>)
           [] OTHER ->
                [sock |-> i, ops |-> ops \o <<Op("socket", i), Op("connect", i)>>]

\* A bug: after a failed connect() the socket is dropped without close().
RECURSIVE TryCandidates_NoClose(_, _, _)
TryCandidates_NoClose(cands, i, ops) ==
    IF i > Len(cands)
    THEN [sock |-> -1, ops |-> ops]
    ELSE CASE cands[i] = "socket_fails" ->
                TryCandidates_NoClose(cands, i + 1, Append(ops, Op("socket_failed", i)))
           [] cands[i] = "connect_fails" ->
                TryCandidates_NoClose(cands, i + 1,
                    ops \o <<Op("socket", i), Op("connect_failed", i)>>)
           [] OTHER ->
                [sock |-> i, ops |-> ops \o <<Op("socket", i), Op("connect", i)>>]

\* The for loop of open_stream from candidate i on; ops are the system calls made so
\* far.  The socket created for candidate i is named i.  Yields the value of `sock'
\* after the loop and the system calls made.
RECURSIVE TryCandidates(_, _, _)
TryCandidates(cands, i, ops) ==
    IF i > Len(cands)
    THEN [sock |-> -1, ops |-> ops]
    ELSE CASE cands[i] = "socket_fails" ->
                TryCandidates(cands, i + 1, Append(ops, Op("socket_failed", i)))
           [] cands[i] = "connect_fails" ->
                TryCandidates(cands, i + 1,
                    ops \o <<Op("socket", i), Op("connect_failed", i), Op("close", i)>>)
           [] OTHER ->
                [sock |-> i, ops |-> ops \o <<Op("socket", i), Op("connect", i)>>]

\* open_stream (hostname, port): the return value, the message printed and the
\* system calls made, when getaddrinfo succeeds or not and yields cands.
open_stream(resolved, cands) ==
    IF ~resolved
    THEN [called |-> TRUE, resolved |-> FALSE, cands |-> <<>>, ops |-> <<>>, ret |-> -1,
          err |-> "failed to resolve host"]
    ELSE LET t == TryCandidates(cands, 1, <<>>)
         IN  IF t.sock < 0
             THEN [called |-> TRUE, resolved |-> TRUE, cands |-> cands, ops |-> t.ops,
                   ret |-> -1, err |-> "failed to connect to data stream"]
             ELSE [called |-> TRUE, resolved |-> TRUE, cands |-> cands, ops |-> t.ops,
                   ret |-> t.sock, err |-> "none"]

\* The program calls open_stream when it holds no open socket.
OpenStream(resolved, cands) ==
    /\ pc = "idle"
    /\ sock # "open"
    /\ conns < MaxConns
    /\ conns' = conns + 1
    /\ os' = open_stream(resolved, cands)
    /\ sock' = IF os'.ret >= 0 THEN "open" ELSE sock
    /\ rs' = NoReadCall
    /\ UNCHANGED <<asmVars, timer, run, written, hdrVars>>

---------------------------------------------------------------------------
(* read_stream *)

Events == {"POLLIN", "POLLERR", "POLLHUP", "POLLNVAL"}

\* The value of the history variable `run' for a call whose poll timed out.
RunAt == IF run >= 0 THEN run + 1 ELSE -1

\* The value of `run' after a call that left timer alone and was no timeout.
RunBroken == IF timer = 0 THEN 0 ELSE -1

\* The record of a read_stream call: its return value, the system calls it made, how
\* poll ended and with which revents, the results of read() and write() (0 when
\* not called), the bytes handed to parse_stream_block, and whether it has returned.
Call(ret, ops, how, R, nread, wrote, fwd, returned) ==
    [ret |-> ret, ops |-> ops, poll |-> how, revents |-> R, nread |-> nread,
     wrote |-> wrote, fwd |-> fwd, returned |-> returned, timerBefore |-> timer,
     runAt |-> IF how = "timeout" THEN RunAt ELSE run]

\* A bug: -1 is returned with the socket left open.
GotoError_NoClose(ops, how, R, nread, wrote) ==
    /\ rs' = Call(-1, ops, how, R, nread, wrote, <<>>, TRUE)
    /\ sock' = sock

\* The label error: close (sock); return -1; after the system calls ops.
GotoError(ops, how, R, nread, wrote) ==
    /\ rs' = Call(-1, Append(ops, "close"), how, R, nread, wrote, <<>>, TRUE)
    /\ sock' = "closed"

\* A bug: 0 is returned with the socket left open.
CloseReturn0_NoClose(ops, R, nread) ==
    /\ rs' = Call(0, ops, "events", R, nread, 0, <<>>, TRUE)
    /\ sock' = sock

\* close (sock); return 0; after the system calls ops.
CloseReturn0(ops, R, nread) ==
    /\ rs' = Call(0, Append(ops, "close"), "events", R, nread, 0, <<>>, TRUE)
    /\ sock' = "closed"

\* A bug: the failing call throws away the partially assembled packet.
PollFails_Discard ==
    /\ GotoError(<<"poll">>, "failed", {}, 0, 0)
    /\ run' = RunBroken
    /\ packet_len' = 0
    /\ UNCHANGED <<packet, buf, pc, caller, emitted, emittedAt, fed, fedConn, cuts,
                   callStart, budget, np>>
    /\ UNCHANGED <<timer, written, conns, os, hdrVars>>

\* ret = poll (...) < 0
PollFails ==
    /\ GotoError(<<"poll">>, "failed", {}, 0, 0)
    /\ run' = RunBroken
    /\ UNCHANGED <<timer, written, conns, os, asmVars, hdrVars>>

\* A bug: the counter is incremented before the test (++timer < 10).
StillIdle_PreIncrement(t) == t + 1 < PingAfter

\* The test timer++ < 10 of the timeout branch, t the value of timer before it.
StillIdle(t) == t < PingAfter

\* ret = poll (...) == 0; wrote: the result of write() should the ping be sent.
PollTimesOut(wrote) ==
    IF StillIdle(timer)
    THEN /\ wrote = 1
         /\ timer' = timer + 1
         /\ rs' = Call(1, <<"poll">>, "timeout", {}, 0, 0, <<>>, TRUE)
         /\ run' = RunAt
         /\ UNCHANGED <<sock, written, conns, os, asmVars, hdrVars>>
    ELSE IF wrote < 0
    THEN /\ timer' = timer + 1
         /\ GotoError(<<"poll", "write">>, "timeout", {}, 0, wrote)
         /\ run' = RunAt
         /\ UNCHANGED <<written, conns, os, asmVars, hdrVars>>
    ELSE /\ Len(written) < MaxPings
         /\ timer' = 0
         /\ written' = Append(written, PingByte)
         /\ rs' = Call(1, <<"poll", "write">>, "timeout", {}, 0, wrote, <<>>, TRUE)
         /\ run' = 0
         /\ UNCHANGED <<sock, conns, os, asmVars, hdrVars>>

\* A bug: the test for POLLIN is made before the test for POLLHUP.
PollEvents_ReadFirst(R, n, b) ==
    IF R \cap {"POLLERR", "POLLNVAL"} # {}
    THEN /\ n = 0
         /\ GotoError(<<"poll">>, "events", R, 0, 0)
         /\ run' = RunBroken
         /\ UNCHANGED <<timer, written, conns, os, asmVars, hdrVars>>
    ELSE IF "POLLIN" \in R
    THEN IF n < 0
         THEN /\ GotoError(<<"poll", "read">>, "events", R, n, 0)
              /\ run' = RunBroken
              /\ UNCHANGED <<timer, written, conns, os, asmVars, hdrVars>>
         ELSE IF n = 0
         THEN /\ CloseReturn0(<<"poll", "read">>, R, n)
              /\ run' = RunBroken
              /\ UNCHANGED <<timer, written, conns, os, asmVars, hdrVars>>
         ELSE /\ Len(b) = n
              /\ rs' = Call(n, <<"poll", "read">>, "events", R, n, 0, b, FALSE)
              /\ EnterParse(b, "read_stream")
              /\ UNCHANGED <<timer, sock, conns, run, written, os, hdrVars>>
    ELSE IF "POLLHUP" \in R
    THEN /\ n = 0
         /\ CloseReturn0(<<"poll">>, R, 0)
         /\ run' = RunBroken
         /\ UNCHANGED <<timer, written, conns, os, asmVars, hdrVars>>
    ELSE /\ n = 0
         /\ timer' = 0
         /\ run' = 0
         /\ rs' = Call(1, <<"poll">>, "events", R, 0, 0, <<>>, TRUE)
         /\ UNCHANGED <<sock, written, conns, os, asmVars, hdrVars>>

\* ret = poll (...) > 0 with poll_fd.revents = R; n is the result of read() should
\* the socket be read, b the bytes read when n > 0.
PollEvents(R, n, b) ==
    IF R \cap {"POLLERR", "POLLNVAL"} # {}
    THEN /\ n = 0
         /\ GotoError(<<"poll">>, "events", R, 0, 0)
         /\ run' = RunBroken
         /\ UNCHANGED <<timer, written, conns, os, asmVars, hdrVars>>
    ELSE IF "POLLHUP" \in R
    THEN /\ n = 0
         /\ CloseReturn0(<<"poll">>, R, 0)
         /\ run' = RunBroken
         /\ UNCHANGED <<timer, written, conns, os, asmVars, hdrVars>>
    ELSE IF "POLLIN" \in R
    THEN IF n < 0
         THEN /\ GotoError(<<"poll", "read">>, "events", R, n, 0)
              /\ run' = RunBroken
              /\ UNCHANGED <<timer, written, conns, os, asmVars, hdrVars>>
         ELSE IF n = 0
         THEN /\ CloseReturn0(<<"poll", "read">>, R, n)
              /\ run' = RunBroken
              /\ UNCHANGED <<timer, written, conns, os, asmVars, hdrVars>>
         ELSE /\ Len(b) = n
              /\ rs' = Call(n, <<"poll", "read">>, "events", R, n, 0, b, FALSE)
              /\ EnterParse(b, "read_stream")
              /\ UNCHANGED <<timer, sock, conns, run, written, os, hdrVars>>
    ELSE /\ n = 0
         /\ timer' = 0
         /\ run' = 0
         /\ rs' = Call(1, <<"poll">>, "events", R, 0, 0, <<>>, TRUE)
         /\ UNCHANGED <<sock, written, conns, os, asmVars, hdrVars>>

\* read_stream (http_sess, sock), called by the main loop while the socket is open.
ReadStream ==
    /\ pc = "idle"
    /\ sock = "open"
    /\ \/ PollFails
       \/ \E wrote \in {-1, 1} : PollTimesOut(wrote)
       \/ \E R \in (SUBSET Events) \ {{}} :
             \E n \in -1..MaxRead : \E b \in Slices(WireBytes, MaxRead) :
                /\ (n <= 0 => b = <<>>)
                /\ PollEvents(R, n, b)

---------------------------------------------------------------------------
(* Initial state: the statics as the C initialisers leave them *)

InitAsm ==
    /\ packet = [i \in 0..(Capacity - 1) |-> 0]
    /\ packet_len = 0
    /\ buf = <<>>
    /\ pc = "idle"
    /\ caller = "none"
    /\ emitted = <<>>
    /\ emittedAt = <<>>
    /\ fed = <<>>
    /\ fedConn = <<>>
    /\ cuts = {}
    /\ callStart = 0
    /\ np = NoPacketCall

InitStream ==
    /\ timer = 0
    /\ sock = "none"
    /\ conns = 0
    /\ rs = NoReadCall
    /\ run = 0
    /\ written = <<>>
    /\ os = NoOpenCall

InitHdr ==
    /\ hdr = <<>>
    /\ hdrLen = -1

\* The frame assembler driven by direct calls with arbitrary slices.
InitA == InitAsm /\ InitStream /\ InitHdr /\ budget = MaxFed
NextA == (\E b \in Slices(FeedBytes, MaxChunk) : ParseStreamBlock(b)) \/ NextPacket
SpecAsm == InitA /\ [][NextA]_vars

\* The bytes of the long packet E3 05 01 02 of the protocol description, fed to the
\* assembler in arbitrary slices and orders.
\*   0xE3 0x05 0x01 0x02
ExampleBytes == {227, 5, 1, 2}

NextE == (\E b \in Slices(ExampleBytes, MaxChunk) : ParseStreamBlock(b)) \/ NextPacket
SpecExample == InitA /\ [][NextE]_vars

---------------------------------------------------------------------------
(* The frame assembler with its buffer nearly full: a long packet of the largest *)
(* expected length, all but its last one or two bytes already buffered by        *)
(* an earlier call, then arbitrary slices.                *)

\*   0xE3 0xFF 0xF0 0x05
FillBytes == {227, 255, 240, 5}

\* packet[] after the header b0 b1 and payload bytes of value fill were buffered.
Preloaded(b0, b1, fill, k) ==
    [i \in 0..(Capacity - 1) |-> IF i = 0 THEN b0 ELSE IF i = 1 THEN b1
                                  ELSE IF i < k THEN fill ELSE 0]

InitF ==
    /\ InitStream /\ InitHdr /\ budget = MaxFed
    /\ \E k \in (Capacity - 2)..(Capacity - 1) :
          /\ packet = Preloaded(227, 255, 5, k)
          /\ packet_len = k
          /\ fed = Range(packet, k)
          /\ fedConn = [i \in 1..k |-> 0]
          /\ cuts = {0}
    /\ buf = <<>>
    /\ pc = "idle"
    /\ caller = "none"
    /\ emitted = <<>>
    /\ emittedAt = <<>>
    /\ callStart = 0
    /\ np = NoPacketCall
NextF == (\E b \in Slices(FillBytes, MaxChunk) : ParseStreamBlock(b)) \/ NextPacket
SpecFull == InitF /\ [][NextF]_vars

---------------------------------------------------------------------------
(* The frame assembler on a stream that does not end.  It starts with an empty  *)
(* buffer or with a packet of the largest expected length (129 bytes) partly    *)
(* buffered; the input comes in windows of MaxWire bytes, and the histories are *)
(* restarted with each window, the statics staying as they are.                 *)

InitLive ==
    /\ InitStream /\ InitHdr /\ budget = MaxWire
    /\ \E k \in {0, Capacity - 2, Capacity - 1} :
          /\ packet = IF k = 0 THEN [i \in 0..(Capacity - 1) |-> 0]
                               ELSE Preloaded(227, 255, 5, k)
          /\ packet_len = k
          /\ fed = Range(packet, k)
          /\ fedConn = [i \in 1..k |-> 0]
          /\ cuts = IF k = 0 THEN {} ELSE {0}
    /\ buf = <<>>
    /\ pc = "idle"
    /\ caller = "none"
    /\ emitted = <<>>
    /\ emittedAt = <<>>
    /\ callStart = 0
    /\ np = NoPacketCall

\* A call of parse_stream_block with input in it.
FeedMore == \E b \in Slices(WireBytes, MaxRead) : b # <<>> /\ ParseStreamBlock(b)

\* A window is used up between two calls: the histories restart from the bytes
\* the buffer holds.
NextWindow ==
    /\ pc = "idle"
    /\ budget = 0
    /\ budget' = MaxWire
    /\ fed' = Range(packet, packet_len)
    /\ fedConn' = [i \in 1..packet_len |-> 0]
    /\ cuts' = IF packet_len = 0 THEN {} ELSE {0}
    /\ callStart' = 0
    /\ emitted' = <<>>
    /\ emittedAt' = <<>>
    /\ UNCHANGED <<packet, packet_len, buf, pc, caller, np, streamVars, os, hdrVars>>

NextLive == FeedMore \/ NextWindow \/ NextPacket

\* The loop of parse_stream_block runs on once entered, and input keeps arriving:
\* the assumption the progress of the framing is stated under.
SpecLive == InitLive /\ [][NextLive]_vars /\ WF_vars(NextLive)

---------------------------------------------------------------------------
(* The length classification for every header: the header is classified, then  *)
(* fed to the assembler in one slice with one byte behind it.                  *)

\* The byte that follows the header.  0xAB
Trailer == <<171>>

\* The header bytes as next_packet sees them in packet[0] and packet[1].
InitL ==
    /\ InitAsm /\ InitStream /\ budget = 3
    /\ hdr \in [0..1 -> Byte]
    /\ hdrLen = -1

Classify ==
    /\ hdrLen = -1
    /\ hdrLen' = Expected(hdr)
    /\ UNCHANGED <<hdr, asmVars, streamVars, os>>

FeedHeader ==
    /\ hdrLen # -1
    /\ fed = <<>>
    /\ pc = "idle"
    /\ EnterParse(<<hdr[0], hdr[1]>> \o Trailer, "direct")
    /\ UNCHANGED <<streamVars, os, hdrVars>>

NextL == Classify \/ FeedHeader \/ NextPacket
SpecLen == InitL /\ [][NextL]_vars

---------------------------------------------------------------------------
(* open_stream alone, for every list of candidate outcomes *)

NextO == \E resolved \in BOOLEAN : \E cands \in CandLists(MaxCand) :
            OpenStream(resolved, cands)
SpecOpen == InitA /\ [][NextO]_vars

---------------------------------------------------------------------------
(* The whole program: connect, then poll the stream; the bytes read are framed. *)
(* The resolver of this model returns one address.                             *)

Init == InitAsm /\ InitStream /\ InitHdr /\ budget = MaxWire
Next ==
    \/ \E resolved \in BOOLEAN : \E cands \in CandLists(1) : OpenStream(resolved, cands)
    \/ ReadStream
    \/ NextPacket
Spec == Init /\ [][Next]_vars

---------------------------------------------------------------------------
(* Claims about the frame assembler *)

\* The header bytes b0 b1 as a buffer.
HeaderOf(b0, b1) == [i \in 0..1 |-> IF i = 0 THEN b0 ELSE b1]

\* The expected length the first two bytes fed announce.
FirstExpected == Expected(HeaderOf(fed[1], fed[2]))

\* The start of the call that supplied the j-th byte fed.
SupplierOf(j) == CHOOSE c \in cuts : c < j /\ \A d \in cuts : d < j => d <= c

RECURSIVE Flatten(_)
Flatten(ss) == IF ss = <<>> THEN <<>> ELSE Head(ss) \o Flatten(Tail(ss))

\* C1: split-invariance.  From an empty buffer, whatever the slices the bytes of a
\* packet P arrive in: nothing is emitted while fewer than Len(P) bytes were
\* supplied; the first packet emitted is P, emitted in the call that supplied P's
\* last byte; and when exactly P was supplied the call returns with P as the one
\* packet emitted.
C1_SplitInvariance ==
    /\ Len(fed) < 2 => emitted = <<>>
    /\ Len(fed) >= 2 =>
          /\ Len(fed) < FirstExpected => emitted = <<>>
          /\ emitted # <<>> =>
                /\ emitted[1] = SubSeq(fed, 1, FirstExpected)
                /\ emittedAt[1] = SupplierOf(FirstExpected)
          /\ (pc = "idle" /\ Len(fed) >= FirstExpected) => emitted # <<>>
          /\ (pc = "idle" /\ Len(fed) = FirstExpected) => emitted = <<fed>>

\* A three-byte packet fed one byte per call, and a four-byte one split inside
\* its header and inside its payload.
C1_Witness ==
    /\ pc = "idle"
    /\ Len(fed) = 3
    /\ FirstExpected = 3
    /\ cuts = {0, 1, 2}
    /\ emitted = <<fed>>
    /\ emittedAt = <<2>>

\* C2: no buffer overrun.  packet_len stays within 0..129, no copy writes at or
\* beyond index 129, a buffered header never announces less than what is
\* buffered, and expected - packet_len never wraps.
C2_NoOverrun ==
    /\ packet_len \in 0..Capacity
    /\ np.lenAfter \in 0..Capacity
    /\ np.top <= Capacity
    /\ ~np.wrapped
    /\ packet_len >= 2 => packet_len <= Expected(packet)
    /\ np.lenAfter >= 2 => np.lenAfter <= np.expected

\* The copy that completes a packet of the largest length writes index 128.
C2_Witness ==
    /\ np.ret = 1
    /\ np.expected = Capacity
    /\ np.top = Capacity
    /\ np.lenAfter = Capacity
    /\ packet_len = 0
    /\ buf # <<>>

\* The number of bytes in the slice of the running (or last) call.
SliceLen == Len(fed) - callStart

\* C3: parse_stream_block consumes its slice and terminates.  The loop has run at
\* most one iteration more than the slice has bytes, an iteration that reports a
\* complete packet consumed at least one byte, the loop ends only with the slice
\* used up, and between calls nothing of a slice is left.
C3_ConsumesAll ==
    /\ np.iter <= SliceLen + 1
    /\ np.ret = 1 => np.consumed >= 1
    /\ (np.iter > 0 /\ np.ret = 0) => (np.left = 0 /\ pc = "idle")
    /\ pc = "idle" => buf = <<>>
    /\ pc = "parse" => (np.iter = 0 \/ np.ret = 1)

\* A call whose slice ends one packet and holds the whole of a second: two
\* iterations report a packet, the third finds the slice used up.
C3_Witness ==
    /\ pc = "idle"
    /\ SliceLen = 3
    /\ np.iter = 3
    /\ np.consumed = 0
    /\ Len(emitted) = 2
    /\ emittedAt = <<1, 1>>
    /\ packet_len = 0

\* C4: lossless in-order framing.  The packets emitted, then the bytes buffered,
\* then the bytes of the slice not yet consumed, are the bytes fed; and a packet
\* emitted is the buffer range [0, expected).
C4_Lossless ==
    /\ Flatten(emitted) \o Range(packet, packet_len) \o buf = fed
    /\ np.ret = 1 =>
          /\ np.lenAfter = np.expected
          /\ emitted # <<>>
          /\ emitted[Len(emitted)] = Range(packet, np.expected)
    /\ \A i \in 1..Len(emitted) :
          /\ Len(emitted[i]) >= 2
          /\ Len(emitted[i]) = Expected(HeaderOf(emitted[i][1], emitted[i][2]))

\* A packet was emitted, another is partly buffered, after several calls.
C4_Witness ==
    /\ pc = "idle"
    /\ Len(emitted) = 1
    /\ Len(emitted[1]) = 3
    /\ packet_len = 1
    /\ Cardinality(cuts) = 3

---------------------------------------------------------------------------
(* Claims about the stream reader *)

Count(ops, name) == Cardinality({i \in DOMAIN ops : ops[i] = name})

Did(name) == \E i \in DOMAIN rs.ops : rs.ops[i] = name

\* The last read_stream call closed the socket once, as its last system call.
ClosedOnceAtEnd ==
    /\ Count(rs.ops, "close") = 1
    /\ rs.ops[Len(rs.ops)] = "close"
    /\ sock = "closed"

\* The last read_stream call was a timeout within a run of timeouts that began
\* with the idle counter at 0.
IdlePoll == rs.poll = "timeout" /\ rs.runAt >= 1

\* C5 as claimed: from idle counter 0 the keepalive is written in the 10th
\* consecutive timed-out poll, and in no other.
C5_AsClaimed == IdlePoll => (Did("write") <=> rs.runAt = PingAfter)

\* C5 as the code has it: from idle counter 0 and with no inbound data, the k-th
\* consecutive timed-out poll finds the counter at k-1; the first ten write
\* nothing and the keepalive write is made in the 11th (the call that finds
\* the counter at 10); a successful write sends one byte and resets the counter to
\* 0, so one byte goes out per 11 timed-out polls; a failed write closes the
\* socket and leaves the counter above 10, so that on a later connection each
\* timed-out poll writes again.
C5_EleventhPoll ==
    IdlePoll =>
        /\ rs.timerBefore = rs.runAt - 1
        /\ Did("write") <=> rs.runAt >= PingAfter + 1
        /\ Count(rs.ops, "write") <= 1
        /\ (Did("write") /\ rs.ret = 1) =>
              (timer = 0 /\ run = 0 /\ written # <<>> /\ written[Len(written)] = 16)
        /\ (Did("write") /\ rs.ret < 0) => timer = rs.runAt
        /\ rs.runAt > PingAfter + 1 => conns > 1

\* The second keepalive of an idle connection, 11 polls after the first.
C5_Witness ==
    /\ IdlePoll
    /\ rs.runAt = PingAfter + 1
    /\ Did("write")
    /\ rs.ret = 1
    /\ written = <<16, 16>>
    /\ fed = <<>>

\* Poll reported a hang-up and no error condition (error conditions come first).
HangUp ==
    /\ rs.poll = "events"
    /\ "POLLHUP" \in rs.revents
    /\ rs.revents \cap {"POLLERR", "POLLNVAL"} = {}

ZeroRead == Did("read") /\ rs.nread = 0

\* C6: shutdown detection.  A call that sees a hang-up, or a readable socket whose
\* read returns 0, closes the socket once as its last system call, returns 0 and
\* hands nothing to the frame assembler; and a call returns 0 in no other case.
C6_Shutdown ==
    rs.returned =>
        /\ (HangUp \/ ZeroRead) => (rs.ret = 0 /\ ClosedOnceAtEnd /\ rs.fwd = <<>>)
        /\ rs.ret = 0 => (HangUp \/ ZeroRead)

\* A zero-length read on a connection that had delivered data before.
C6_Witness ==
    /\ ZeroRead
    /\ rs.ret = 0
    /\ rs.ops = <<"poll", "read", "close">>
    /\ sock = "closed"
    /\ fed # <<>>

\* One of the four failures happened in the last read_stream call.
Failure ==
    \/ rs.poll = "failed"
    \/ rs.poll = "events" /\ rs.revents \cap {"POLLERR", "POLLNVAL"} # {}
    \/ Did("read") /\ rs.nread < 0
    \/ Did("write") /\ rs.wrote < 0

\* C7: every failure path closes the socket once, as the last system call, returns
\* a negative value and hands nothing to the frame assembler; a negative value is
\* returned on no other path, and no call closes the socket twice.
C7_FailuresClose ==
    /\ Count(rs.ops, "close") <= 1
    /\ rs.returned =>
          /\ Failure => (rs.ret < 0 /\ ClosedOnceAtEnd /\ rs.fwd = <<>>)
          /\ rs.ret < 0 => (Failure /\ ClosedOnceAtEnd)

\* The keepalive write failed, on the second connection.
C7_Witness ==
    /\ rs.ops = <<"poll", "write", "close">>
    /\ rs.wrote < 0
    /\ rs.ret = -1
    /\ sock = "closed"
    /\ conns = 2

---------------------------------------------------------------------------
(* Claims about open_stream *)

\* The first candidate for which socket() and connect() both succeed (0: none).
FirstGood(cands) ==
    IF \E i \in DOMAIN cands : cands[i] = "connects"
    THEN CHOOSE i \in DOMAIN cands :
            cands[i] = "connects" /\ \A j \in 1..(i - 1) : cands[j] # "connects"
    ELSE 0

\* The candidates the system calls of the last open_stream call were made for.
Tried == {os.ops[k].cand : k \in DOMAIN os.ops}

InOrder == \A j, k \in DOMAIN os.ops : j < k => os.ops[j].cand <= os.ops[k].cand

\* C8: open_stream tries the candidates in resolution order and returns the socket
\* of the first for which socket() and connect() succeed, trying none after it;
\* it returns -1 with no socket created when resolution fails, and -1 with the
\* connection error exactly when resolution succeeded and every candidate failed.
C8_FirstCandidateWins ==
    os.called =>
        /\ InOrder
        /\ ~os.resolved =>
              (os.ret = -1 /\ os.err = "failed to resolve host" /\ os.ops = <<>>)
        /\ (os.resolved /\ FirstGood(os.cands) > 0) =>
              /\ os.ret = FirstGood(os.cands)
              /\ os.err = "none"
              /\ Tried = 1..FirstGood(os.cands)
              /\ os.ops[Len(os.ops)] = Op("connect", os.ret)
        /\ (os.resolved /\ FirstGood(os.cands) = 0) =>
              /\ os.ret = -1
              /\ os.err = "failed to connect to data stream"
              /\ Tried = DOMAIN os.cands
        /\ (os.ret = -1 /\ os.err = "failed to connect to data stream") <=>
              (os.resolved /\ FirstGood(os.cands) = 0)

\* Socket creation fails for the first address, connect for the second, the third
\* connects; the fourth is not tried.
C8_Witness ==
    /\ os.called
    /\ os.cands = <<"socket_fails", "connect_fails", "connects", "connects">>
    /\ os.ret = 3
    /\ sock = "open"

---------------------------------------------------------------------------
(* Claims about the length classification *)

\* The protocol table as the specification states it, in plain arithmetic.
TableCar(b0) == b0 % 32
TableType(b0, b1) == (b0 \div 32) + 8 * (b1 % 2)
TableShort(b1) == IF b1 \div 16 = 15 THEN 2 ELSE (b1 \div 16) + 2
TableLong(b1) == (b1 \div 2) + 2
TableShortClass(b0, b1) ==
    IF TableCar(b0) # 0
    THEN TableType(b0, b1) \notin {0, 15}
    ELSE TableType(b0, b1) \in {1, 2, 9, 11}
TableLength(b0, b1) ==
    IF TableCar(b0) # 0
    THEN IF TableType(b0, b1) = 0 THEN 2
         ELSE IF TableType(b0, b1) = 15 THEN TableLong(b1)
         ELSE TableShort(b1)
    ELSE IF TableType(b0, b1) \in {3, 5, 8} THEN 2
         ELSE IF TableType(b0, b1) \in {1, 2, 9, 11} THEN TableShort(b1)
         ELSE IF TableType(b0, b1) = 7 THEN 4
         ELSE TableLong(b1)

\* C9: for every header the expected length next_packet computes is the one the
\* protocol table gives, and lies in 2..129; [0x20,0x10] gives 3, [0x05,0x00]
\* gives 2 and [0xE3,0x05] gives 4.
C9_LengthTable ==
    hdrLen # -1 =>
        /\ hdrLen = TableLength(hdr[0], hdr[1])
        /\ hdrLen \in 2..129
        /\ (hdr[0] = 32 /\ hdr[1] = 16) => hdrLen = 3
        /\ (hdr[0] = 5 /\ hdr[1] = 0) => hdrLen = 2
        /\ (hdr[0] = 227 /\ hdr[1] = 5) => hdrLen = 4
        /\ (TableCar(hdr[0]) = 0 /\ TableType(hdr[0], hdr[1]) \in {0, 4, 6, 10, 12, 13, 14, 15})
              => hdrLen = (hdr[1] \div 2) + 2

\* The system header of type 7 with the largest length field: fixed length 4.
C9_Witness ==
    /\ hdr[0] = 224
    /\ hdr[1] = 254
    /\ hdrLen = 4

\* C10: a short-class header with the null marker has expected length 2: fed with
\* a byte behind it, the packet is emitted as the two header bytes alone and the
\* byte behind is not consumed into it; any other short-class header has expected
\* length (b1 >> 4) + 2.
C10_NullMarker ==
    (hdrLen # -1 /\ TableShortClass(hdr[0], hdr[1])) =>
        /\ hdr[1] \div 16 = 15 =>
              /\ hdrLen = 2
              /\ np.iter >= 1 =>
                    /\ emitted = << <<hdr[0], hdr[1]>> >>
                    /\ Range(packet, packet_len) \o buf = Trailer
        /\ hdr[1] \div 16 # 15 =>
              /\ hdrLen = (hdr[1] \div 16) + 2
              /\ emitted # <<>> => Len(emitted[1]) = (hdr[1] \div 16) + 2

\* A car packet with the null marker was emitted; the byte behind it waits in the
\* buffer as the first header byte of the next packet.
C10_Witness ==
    /\ hdr[0] = 37
    /\ hdr[1] = 245
    /\ pc = "idle"
    /\ emitted = << <<37, 245>> >>
    /\ packet_len = 1
    /\ Range(packet, 1) = Trailer

---------------------------------------------------------------------------
(* Claims about the assembler's states *)

\* The number of bytes of the packets emitted so far.
EmittedLen == Len(Flatten(emitted))

\* The bytes fed that next_packet has taken out of its slices so far.
Consumed == SubSeq(fed, 1, Len(fed) - Len(buf))

\* Where in `fed' the packet the last next_packet call worked on begins.
CurStart ==
    IF np.ret = 1 THEN EmittedLen - Len(emitted[Len(emitted)]) ELSE EmittedLen

\* A second run of the loop of parse_stream_block: the packets it emits for the
\* one slice b, entered with the buffer p holding len bytes.
RECURSIVE Run(_, _, _)
Run(p, len, b) ==
    LET r == next_packet(p, len, b)
    IN  IF r.ret # 0
        THEN <<Range(r.packet, r.packet_len)>> \o Run(r.packet, 0, r.buf)
        ELSE <<>>

\* The packets a run emits that starts with the statics as initialised and is fed b.
FreshRun(b) == Run([i \in 0..(Capacity - 1) |-> 0], 0, b)

\* C11: reset property.  Right after a packet is emitted the buffered length is 0;
\* the length of a packet is worked out only when both of its own header bytes
\* are buffered, and from these two bytes; and after any number k of completed
\* packets the packets emitted for the later input are those a run with no
\* earlier packet at all emits for that input.
C11_Reset ==
    /\ np.ret = 1 => packet_len = 0
    /\ np.expected # -1 =>
          /\ np.lenAfter >= 2
          /\ Len(Consumed) >= CurStart + 2
          /\ np.expected = Expected(HeaderOf(fed[CurStart + 1], fed[CurStart + 2]))
    /\ \A k \in 0..Len(emitted) :
          SubSeq(emitted, k + 1, Len(emitted)) =
             FreshRun(SubSeq(Consumed, Len(Flatten(SubSeq(emitted, 1, k))) + 1,
                             Len(Consumed)))

\* Two packets; the second one's header arrived in two calls, so that its length
\* was not worked out while packet[1] still held the first packet's byte, which
\* would have given another length.
C11_Witness ==
    /\ pc = "idle"
    /\ fed = <<5, 32, 32, 5>>
    /\ cuts = {0, 3}
    /\ emitted = << <<5, 32>>, <<32, 5>> >>
    /\ Expected(HeaderOf(32, 32)) # 2
    /\ packet_len = 0

\* C12: the assembler never rests with a complete packet buffered and never emits
\* an incomplete one.  Whenever parse_stream_block has returned, fewer than 2 bytes
\* are buffered, or at least 2 and fewer than the buffered header announces; a
\* next_packet call reports a packet exactly when the buffered length has reached
\* the expected length, and the packet then emitted has that length; of the
\* packet E3 05 01 02 the first three bytes emit nothing and stay buffered.
C12_NeverComplete ==
    /\ pc = "idle" =>
          \/ packet_len < 2
          \/ packet_len >= 2 /\ packet_len < Expected(packet)
    /\ np.iter > 0 =>
          /\ np.ret = 1 <=> (np.expected # -1 /\ np.lenAfter = np.expected)
          /\ np.ret = 1 => Len(emitted[Len(emitted)]) = np.expected
          /\ np.ret = 0 => packet_len = np.lenAfter
    /\ \A i \in 1..Len(emitted) :
          Len(emitted[i]) = Expected(HeaderOf(emitted[i][1], emitted[i][2]))
    /\ (pc = "idle" /\ fed = <<227, 5, 1>>) =>
          (emitted = <<>> /\ packet_len = 3 /\ Range(packet, 3) = fed)
    /\ (pc = "idle" /\ fed = <<227, 5, 1, 2>>) => (emitted = <<fed>> /\ packet_len = 0)

\* Three of the four bytes were fed, the header in one call and a payload byte in
\* the next: nothing emitted, three bytes buffered, one short of the length.
C12_Witness ==
    /\ pc = "idle"
    /\ fed = <<227, 5, 1>>
    /\ cuts = {0, 2}
    /\ emitted = <<>>
    /\ packet_len = 3
    /\ np.expected = 4
    /\ np.ret = 0

\* The bytes taken in since the last packet was emitted (or since the start).
SinceEmitted == Len(Consumed) - EmittedLen

\* C13: framing never fails and always makes progress.  A next_packet call
\* returns 0 or 1 and nothing else; a call of parse_stream_block, once entered,
\* returns; never more than 128 bytes are taken in without a packet being
\* emitted, so that the 129th byte fed after any state completes one at the
\* latest; and, input arriving for ever, a packet is emitted again and again.
C13_Progress ==
    /\ [](np.ret \in {0, 1})
    /\ [](SinceEmitted = packet_len /\ packet_len <= Capacity - 1)
    /\ [](\A i \in 1..Len(emitted) : Len(emitted[i]) <= Capacity)
    /\ (pc = "parse") ~> (pc = "idle")
    /\ []<>(np.ret = 1)

\* A packet of 129 bytes was completed in a window that began with 127 of its
\* bytes buffered, the 129th byte in a call of its own.
C13_Witness ==
    /\ np.ret = 1
    /\ np.expected = Capacity
    /\ Len(emitted) = 1
    /\ Len(emitted[1]) = Capacity
    /\ cuts = {0, Capacity - 2, Capacity - 1}
    /\ packet_len = 0

---------------------------------------------------------------------------
(* Claims about the stream reader and the assembler together *)

\* The positions in `fed' of the bytes of the i-th packet emitted.
PacketSpan(i) ==
    (Len(Flatten(SubSeq(emitted, 1, i - 1))) + 1)..Len(Flatten(SubSeq(emitted, 1, i)))

\* The i-th packet emitted holds bytes read from more than one connection.
Mixed(i) == \E j, k \in PacketSpan(i) : fedConn[j] # fedConn[k]

\* C14 as claimed: once read_stream has closed the socket (return 0 or negative)
\* the assembler is at length 0, whatever it had buffered, and no packet emitted
\* holds bytes read before the close together with bytes read after it.
C14_AsClaimed ==
    /\ (rs.returned /\ rs.ret <= 0 /\ sock = "closed") => packet_len = 0
    /\ \A i \in 1..Len(emitted) : ~Mixed(i)

\* The parts of C15 that do not depend on how the timeouts are counted: the idle
\* counter is 0 on return from a call that read data and from one that wrote the
\* keepalive; a call writes at most once, and not at all when its poll reported
\* an event.
ResetsAndWrites ==
    /\ (rs.returned /\ rs.nread > 0) => (timer = 0 /\ rs.ret = rs.nread)
    /\ (Did("write") /\ rs.ret = 1) => timer = 0
    /\ Count(rs.ops, "write") <= 1
    /\ Did("write") => rs.poll = "timeout"

\* C15 as claimed: besides, a keepalive is written only by a call that at least 10
\* consecutive timed-out polls precede, counted from the last data arrival or
\* keepalive.
C15_AsClaimed ==
    /\ ResetsAndWrites
    /\ Did("write") => rs.runAt >= PingAfter + 1

\* C15 as the code has it: a keepalive is written only with the idle counter at 10
\* or more.  As long as no call has closed the socket since the counter was last
\* 0, that is after at least 10 consecutive timed-out polls; a call that closes
\* the socket (hang-up, zero-length read, error) leaves the counter as it is, so
\* that on a later connection fewer consecutive timed-out polls precede the write.
C15_QuietPeriod ==
    /\ ResetsAndWrites
    /\ Did("write") =>
          /\ rs.timerBefore >= PingAfter
          /\ rs.runAt >= PingAfter + 1 \/ (rs.runAt = -1 /\ conns > 1)
    /\ (rs.poll = "timeout" /\ rs.timerBefore < PingAfter) => ~Did("write")
    /\ run = -1 => (timer > 0 /\ conns >= 1)

\* Data had arrived, then the connection was closed in the midst of an idle run;
\* on the second connection the keepalive was written with the run broken.
C15_Witness ==
    /\ Did("write")
    /\ rs.ret = 1
    /\ rs.runAt = -1
    /\ rs.timerBefore = PingAfter
    /\ conns = 2
    /\ timer = 0
    /\ fed # <<>>
    /\ written = <<16>>

\* The last read_stream call got events from poll, an error condition among them.
ErrorEvent == rs.poll = "events" /\ rs.revents \cap {"POLLERR", "POLLNVAL"} # {}

\* C17: event priority.  Of the events poll reports, an error condition is acted
\* on first, whatever else is reported: close, return -1.  Failing that a hang-up
\* is acted on, also when POLLIN is reported with it: close, return 0, no read.
\* Only failing both is the socket read.  So a call that returns 0 or a negative
\* value has handed nothing to the frame assembler.
C17_EventPriority ==
    /\ ErrorEvent => (rs.ret = -1 /\ rs.ops = <<"poll", "close">> /\ sock = "closed")
    /\ HangUp => (rs.ret = 0 /\ rs.ops = <<"poll", "close">> /\ sock = "closed")
    /\ Did("read") =>
          /\ rs.poll = "events"
          /\ "POLLIN" \in rs.revents
          /\ rs.revents \cap {"POLLERR", "POLLNVAL", "POLLHUP"} = {}
    /\ (rs.poll = "events" /\ rs.revents = {"POLLIN"}) => Did("read")
    /\ rs.fwd # <<>> => (Did("read") /\ rs.nread = Len(rs.fwd) /\ rs.nread > 0)
    /\ (rs.returned /\ rs.ret <= 0) => (rs.fwd = <<>> /\ pc = "idle")

\* Hang-up reported together with POLLIN, on a connection that had delivered
\* data: the socket is closed without a read.
C17_Witness ==
    /\ rs.revents = {"POLLHUP", "POLLIN"}
    /\ rs.ret = 0
    /\ rs.ops = <<"poll", "close">>
    /\ sock = "closed"
    /\ fed # <<>>

\* The step is a whole read_stream call that never reached parse_stream_block:
\* the poll failed or timed out, or the call closed the socket.
CallWithoutParse ==
    /\ pc = "idle" /\ pc' = "idle"
    /\ sock = "open"
    /\ rs'.returned
    /\ rs'.poll \in {"failed", "timeout", "events"}
    /\ rs'.fwd = <<>>

\* The step is the first part of a read_stream call that read bytes: poll, read
\* and the entry into parse_stream_block.
CallEntersParse == pc = "idle" /\ pc' = "parse"

\* The step is one iteration of the loop of parse_stream_block.
LoopStep == pc = "parse"

\* What one iteration of the loop does to the assembly buffer.
LoopEffect ==
    \E r \in {next_packet(packet, packet_len, buf)} :
        /\ packet' = r.packet
        /\ packet_len' = IF r.ret # 0 THEN 0 ELSE r.packet_len
        /\ buf' = r.buf

\* C18: frame of read_stream.  A call whose poll fails or times out (the
\* keepalive written or not), or that closes the socket, leaves packet and
\* packet_len as they were.  The two change only inside parse_stream_block, which
\* read_stream enters only after a read of n > 0 bytes and with exactly those n
\* bytes, and there only as next_packet dictates.  The loop of parse_stream_block
\* leaves the socket, the bytes written and the idle counter alone; the counter
\* is set to 0 by read_stream once the loop has returned.
C18_Frame ==
    [][/\ CallWithoutParse => UNCHANGED <<packet, packet_len, buf, fed, emitted>>
       /\ (pc = "idle" /\ pc' = "idle") => UNCHANGED <<packet, packet_len>>
       /\ <<packet, packet_len>>' # <<packet, packet_len>> =>
             (LoopStep /\ Did("read") /\ rs.nread > 0 /\ Len(rs.fwd) = rs.nread)
       /\ CallEntersParse =>
             /\ rs'.ops = <<"poll", "read">>
             /\ rs'.nread > 0
             /\ Len(rs'.fwd) = rs'.nread
             /\ buf' = rs'.fwd
             /\ fed' = fed \o rs'.fwd
             /\ ~rs'.returned
             /\ UNCHANGED <<packet, packet_len, timer, sock, written>>
       /\ LoopStep =>
             /\ LoopEffect
             /\ UNCHANGED <<sock, written, conns, fed>>
             /\ rs'.ops = rs.ops
             /\ pc' = "parse" => UNCHANGED <<timer, rs>>
             /\ pc' = "idle" => (timer' = 0 /\ rs'.returned /\ rs'.ret = rs.nread)
      ]_vars

\* A partially assembled packet has sat through a timeout that wrote the
\* keepalive: the byte read before is still the whole content of the buffer.
C18_Witness ==
    /\ rs.returned
    /\ rs.poll = "timeout"
    /\ rs.ops = <<"poll", "write">>
    /\ rs.ret = 1
    /\ packet_len = 1
    /\ fed = <<packet[0]>>
    /\ pc = "idle"

---------------------------------------------------------------------------
(* Claims about the sockets of open_stream *)

\* How often the last open_stream call made the system call o.
Times(o) == Cardinality({k \in DOMAIN os.ops : os.ops[k] = o})

\* The sockets the last open_stream call created and has not closed.
StillOpen ==
    {i \in DOMAIN os.cands : Times(Op("socket", i)) = 1 /\ Times(Op("close", i)) = 0}

\* C16: open_stream leaks no socket.  A socket whose connect() failed is closed by
\* the very next system call, before anything is done for another candidate;
\* nothing else is closed and nothing is closed twice; on return the sockets
\* created and still open are the returned one alone when the call succeeds and
\* none when it fails.
C16_NoLeak ==
    os.called =>
        /\ \A k \in DOMAIN os.ops :
              /\ os.ops[k].op = "connect_failed" =>
                    (k < Len(os.ops) /\ os.ops[k + 1] = Op("close", os.ops[k].cand))
              /\ os.ops[k].op = "close" =>
                    (k > 1 /\ os.ops[k - 1] = Op("connect_failed", os.ops[k].cand))
        /\ \A i \in DOMAIN os.cands :
              /\ Times(Op("socket", i)) <= 1
              /\ Times(Op("close", i)) <= Times(Op("socket", i))
              /\ os.cands[i] = "connect_fails" /\ Times(Op("socket", i)) = 1
                    => Times(Op("close", i)) = 1
        /\ os.ret >= 0 => (StillOpen = {os.ret} /\ Cardinality(StillOpen) = 1)
        /\ os.ret < 0 => StillOpen = {}

\* Two sockets were created and closed after failed connects, one socket() failed
\* in between, and the fourth candidate's socket is the one returned.
C16_Witness ==
    /\ os.called
    /\ os.cands = <<"connect_fails", "socket_fails", "connect_fails", "connects">>
    /\ os.ret = 4
    /\ Times(Op("close", 1)) = 1
    /\ Times(Op("close", 3)) = 1
    /\ StillOpen = {4}

=============================================================================
